---- MODULE Spec2Model ----
(***************************************************************************)
(* Model of src/main.py: the Affluences library harvester.                 *)
(*                                                                         *)
(* Python values are modelled as follows.                                  *)
(*   - text           : a sequence of one-character strings; "" is <<>>.   *)
(*                      Characters outside ASCII carry a name: "Icirc" is  *)
(*                      U+00CE, "icirc" U+00EE, "eacute" U+00E9, "NNBSP"   *)
(*                      U+202F, "comb_circ" U+0302, "comb_acute" U+0301.   *)
(*   - dict           : a function whose DOMAIN is the set of keys.        *)
(*   - d.get(k)       : Get(d, k), an optional value: None is <<>> and a   *)
(*                      present value v is <<v>>.                          *)
(*   - d.get(k, dflt) : GetD(d, k, dflt), the raw value.                   *)
(*   - float          : an integer number of 1e-4 degrees.                 *)
(*   - site id        : the text str.format() puts in the detail URL.      *)
(***************************************************************************)
EXTENDS Integers, Sequences, FiniteSets, TLC

VARIABLES
    pc,              \* position of main(): "list", "filter", "enrich", "map", "done", "aborted"
    page,            \* fetch_all_library_sites: local page
    acc_sites,       \* fetch_all_library_sites: local all_sites
    list_responses,  \* the result sequences the list endpoint answered with status 200, in order
    all_sites,       \* main: all_sites
    libraries,       \* main: libraries
    idx,             \* main: number of completed iterations of the loop over libraries
    enriched,        \* main: enriched
    csv_file,        \* ile_de_france_libraries.csv: None, or <<rows>> once written
    map_file,        \* ile_de_france_libraries_map.html: None, or <<map>> once saved
    log,             \* remote requests (with the status they were answered with) and sleeps, in order
    seats_called,    \* get_available_seats_from_infos called on its own
    seats_infos,     \*   its argument
    seats_result     \*   its return value

vars == <<pc, page, acc_sites, list_responses, all_sites, libraries, idx,
          enriched, csv_file, map_file, log, seats_called, seats_infos, seats_result>>

pipeline_vars == <<pc, page, acc_sites, list_responses, all_sites, libraries, idx,
                   enriched, csv_file, map_file, log>>

seats_vars == <<seats_called, seats_infos, seats_result>>

----------------------------------------------------------------------------
(* Bounds *)

MaxPages == 2    \* the list endpoint has at most this many non-empty pages
MaxSites == 3    \* the list endpoint returns at most this many sites in total
MaxInfos == 3    \* longest infos sequence handed to the seat heuristic on its own

----------------------------------------------------------------------------
(* Python values *)

None == <<>>

Some(v) == <<v>>

EmptyDict == [k \in {} |-> None]

Get(d, k) == IF k \in DOMAIN d THEN <<d[k]>> ELSE None

GetD(d, k, dflt) == IF k \in DOMAIN d THEN d[k] ELSE dflt

\* a or b, for sequences (text, lists): the empty sequence is falsy
OrSeq(a, b) == IF a # <<>> THEN a ELSE b

\* truthiness of an optional text: None and "" are falsy
TruthyText(o) == o # None /\ o[1] # <<>>

\* truthiness of an optional number: None and 0 are falsy
TruthyNum(o) == o # None /\ o[1] # 0

\* a or b, for optional texts
OrText(a, b) == IF TruthyText(a) THEN a ELSE b

\* sub in s
Contains(sub, s) ==
    \E i \in 0..(Len(s) - Len(sub)) : SubSeq(s, i + 1, i + Len(sub)) = sub

----------------------------------------------------------------------------
(* norm_text *)

NNBSP == "NNBSP"

Combining == {"comb_circ", "comb_acute"}

\* unicodedata.normalize("NFKD", ch) for one character
NFKD(ch) ==
    CASE ch = "Icirc"  -> <<"I", "comb_circ">>
      [] ch = "icirc"  -> <<"i", "comb_circ">>
      [] ch = "eacute" -> <<"e", "comb_acute">>
      [] ch = "NNBSP"  -> <<" ">>
      [] OTHER         -> <<ch>>

RECURSIVE Normalize(_)
Normalize(s) == IF s = <<>> THEN <<>> ELSE NFKD(Head(s)) \o Normalize(Tail(s))

UpperAlpha == <<"A","B","C","D","E","F","G","H","I","J","K","L","M",
                "N","O","P","Q","R","S","T","U","V","W","X","Y","Z">>

LowerAlpha == <<"a","b","c","d","e","f","g","h","i","j","k","l","m",
                "n","o","p","q","r","s","t","u","v","w","x","y","z">>

\* str.lower() for one character
LowerChar(ch) ==
    IF \E i \in 1..Len(UpperAlpha) : UpperAlpha[i] = ch
    THEN LowerAlpha[CHOOSE i \in 1..Len(UpperAlpha) : UpperAlpha[i] = ch]
    ELSE IF ch = "Icirc" THEN "icirc" ELSE ch

IsNotCombining(ch) == ch \notin Combining

\* str.lower()
RECURSIVE Lower(_)
Lower(s) == IF s = <<>> THEN <<>> ELSE <<LowerChar(Head(s))>> \o Lower(Tail(s))

norm_text(s) ==
    IF s = <<>> THEN <<>>
    ELSE Lower(SelectSeq(Normalize(s), IsNotCombining))

----------------------------------------------------------------------------
(* extract_first_int *)

Digits == <<"0","1","2","3","4","5","6","7","8","9">>

IsDigit(ch) == \E i \in 1..Len(Digits) : Digits[i] = ch

DigitVal(ch) == (CHOOSE i \in 1..Len(Digits) : Digits[i] = ch) - 1

IsNotNNBSP(ch) == ch # NNBSP

\* int() of the maximal digit run of t that starts at position i
RECURSIVE DigitRun(_, _, _)
DigitRun(t, i, n) ==
    IF i > Len(t) \/ ~IsDigit(t[i]) THEN n
    ELSE DigitRun(t, i + 1, n * 10 + DigitVal(t[i]))

extract_first_int(s) ==
    IF s = <<>> THEN None
    ELSE LET t == SelectSeq(s, IsNotNNBSP)
         IN  IF \E i \in 1..Len(t) : IsDigit(t[i])
             THEN LET first == CHOOSE i \in 1..Len(t) :
                                 IsDigit(t[i]) /\ \A j \in 1..(i - 1) : ~IsDigit(t[j])
                  IN  Some(DigitRun(t, first, 0))
             ELSE None

----------------------------------------------------------------------------
(* is_ile_de_france *)

is_ile_de_france(region_string) ==
    LET r == norm_text(region_string)
    IN  \/ Contains(<<"i","l","e">>, r) /\ Contains(<<"f","r","a","n","c","e">>, r)
        \/ Contains(<<"icirc","l","e">>, r) /\ Contains(<<"f","r","a","n","c","e">>, r)
        \/ Contains(<<"i","l","e","-","d","e","-","f","r","a","n","c","e">>, r)
        \/ Contains(<<"i","l","e"," ","d","e"," ","f","r","a","n","c","e">>, r)

----------------------------------------------------------------------------
(* get_available_seats_from_infos *)

keywords == <<
    <<"a","v","a","i","l","a","b","l","e">>,
    <<"a","v","a","i","l","a","b","l","e"," ","s","e","a","t","s">>,
    <<"a","v","a","i","l","a","b","l","e"," ","p","l","a","c","e","s">>,
    <<"p","l","a","c","e","s"," ","d","i","s","p","o","n","i","b","l","e","s">>,
    <<"p","l","a","c","e","s"," ","d","i","s","p","o","n","i","b","l","e","s">>,
    <<"p","l","a","c","e","s">>,
    <<"p","l","a","c","e","s"," ","d","i","s","p","o","n","i","b","l","e","s"," ","(","a","p","p","r","o","x",")">>,
    <<"p","l","a","c","e","s"," ","d","i","s","p","o","n","i","b","l","e","s"," ","(","a","p","p","r","o","x",".",")">>,
    <<"p","l","a","c","e","s"," ","d","i","s","p","o","n","i","b","l","e","s"," ","a","p","p","r","o","x","i","m","a","t","i","v","e","s">>,
    <<"p","l","a","c","e","s"," ","d","i","s","p","o","n","i","b","l","e","s"," ","a","p","p","r","o","x","i","m","a","t","i","v","e">> >>

\* f"{title} {desc}" of one info entry
Combined(info) ==
    norm_text(GetD(info, "title", <<>>)) \o <<" ">> \o norm_text(GetD(info, "description", <<>>))

\* info.get("description", "") or info.get("title", "")
NumberSource(info) == OrSeq(GetD(info, "description", <<>>), GetD(info, "title", <<>>))

\* a heuristic without its second loop
FallbackScan_none(infos, i) == None

\* the second loop: the first integer of any entry, in order
RECURSIVE FallbackScan(_, _)
FallbackScan(infos, i) ==
    IF i > Len(infos) THEN None
    ELSE LET n == extract_first_int(NumberSource(infos[i]))
         IN  IF n # None THEN n ELSE FallbackScan(infos, i + 1)

\* the loop over the keywords for one entry, at keyword j: the integer to
\* return, or None to go on with the next entry
RECURSIVE KeywordLoop(_, _, _)
KeywordLoop(info, combined, j) ==
    IF j > Len(keywords) THEN None
    ELSE IF Contains(keywords[j], combined)
         THEN LET n == extract_first_int(NumberSource(info))
              IN  IF n # None THEN n ELSE KeywordLoop(info, combined, j + 1)
         ELSE KeywordLoop(info, combined, j + 1)

\* the first loop, at entry i; falls through to the second loop
RECURSIVE KeywordScan(_, _)
KeywordScan(infos, i) ==
    IF i > Len(infos) THEN FallbackScan(infos, 1)
    ELSE LET n == KeywordLoop(infos[i], Combined(infos[i]), 1)
         IN  IF n # None THEN n ELSE KeywordScan(infos, i + 1)

\* a heuristic that scans the entries from the last to the first
get_available_seats_from_infos_reversed(infos) ==
    IF infos = <<>> THEN None
    ELSE KeywordScan([i \in 1..Len(infos) |-> infos[Len(infos) + 1 - i]], 1)

get_available_seats_from_infos(infos) ==
    IF infos = <<>> THEN None ELSE KeywordScan(infos, 1)

----------------------------------------------------------------------------
(* Info entries the heuristic is exercised on *)

InfoHoraires ==
    [title |-> <<"H","o","r","a","i","r","e","s">>, description |-> <<"9","h","-","1","8","h">>]

InfoPlaces12 ==
    [title |-> <<"P","l","a","c","e","s"," ","d","i","s","p","o","n","i","b","l","e","s">>,
     description |-> <<"1","2"," ","p","l","a","c","e","s"," ","l","i","b","r","e","s">>]

InfoPlacesComplet ==
    [title |-> <<"P","l","a","c","e","s">>, description |-> <<"c","o","m","p","l","e","t">>]

InfoAvailable7 ==
    [title |-> <<"A","v","a","i","l","a","b","l","e"," ","s","e","a","t","s"," ","7">>]

InfoCapacite50 ==
    [title |-> <<"N","o","t","e">>,
     description |-> <<"C","a","p","a","c","i","t","eacute"," ","t","o","t","a","l","e"," ","5","0">>]

InfoPLACES1234 ==
    [title |-> <<"P","L","A","C","E","S">>,
     description |-> <<"1","NNBSP","2","3","4"," ","e","n","v",".">>]

InfoWifi ==
    [title |-> <<"W","i","f","i">>, description |-> <<"o","u","i">>]

InfoSamples ==
    {InfoHoraires, InfoPlaces12, InfoPlacesComplet, InfoAvailable7,
     InfoCapacite50, InfoPLACES1234, InfoWifi}

SeqsUpTo(S, n) == UNION {[1..k -> S] : k \in 0..n}

----------------------------------------------------------------------------
(* Site summaries the list endpoint can return *)

RegionIDF == <<"Icirc","l","e","-","d","e","-","F","r","a","n","c","e">>

RegionIDFUpper == <<"I","L","E"," ","D","E"," ","F","R","A","N","C","E">>

RegionIDFSwapped == <<"F","R","A","N","C","E"," ","(","I","L","E"," ","D","E",")">>

RegionBretagne == <<"B","r","e","t","a","g","n","e">>

\* both coordinates, a slug, infos and a forecast of its own
SiteBnf ==
    [id |-> <<"1","0","1">>, slug |-> <<"b","n","f">>, primary_name |-> <<"B","n","F">>,
     location |-> [address |-> [region |-> RegionIDF, route |-> <<"q","u","a","i">>,
                                city |-> <<"P","a","r","i","s">>],
                   coordinates |-> [latitude |-> 488300, longitude |-> 23700]],
     estimated_distance |-> 1200,
     infos |-> <<InfoHoraires, InfoPlaces12>>,
     current_forecast |-> [occupancy |-> 40]]

\* outside the region
SiteRennes ==
    [id |-> <<"1","0","2">>, slug |-> <<"r","e","n","n","e","s">>,
     primary_name |-> <<"R","e","n","n","e","s">>,
     location |-> [address |-> [region |-> RegionBretagne, city |-> <<"R","e","n","n","e","s">>],
                   coordinates |-> [latitude |-> 481100, longitude |-> -16800]]]

\* no slug, no primary_name, a coordinates mapping with one key only
SiteCujas ==
    [id |-> <<"1","0","3">>, concat_name |-> <<"C","u","j","a","s">>,
     location |-> [address |-> [region |-> RegionIDFUpper],
                   coordinates |-> [latitude |-> 488400]],
     infos |-> <<InfoCapacite50>>]

\* a coordinate whose value is 0
SiteZero ==
    [id |-> <<"1","0","4">>, slug |-> <<"z","e","r","o">>, primary_name |-> <<"Z">>,
     location |-> [address |-> [region |-> RegionIDFSwapped],
                   coordinates |-> [latitude |-> 0, longitude |-> 23500]]]

\* an empty slug and an empty coordinates mapping
SiteBpi ==
    [id |-> <<"1","0","5">>, slug |-> <<>>, primary_name |-> <<"B","p","i">>,
     location |-> [address |-> [region |-> RegionIDF], coordinates |-> EmptyDict],
     infos |-> <<InfoPlacesComplet, InfoHoraires>>]

SiteSamples == {SiteBnf, SiteRennes, SiteCujas, SiteZero, SiteBpi}

\* the sequences of at most n sites, none of them in seen and none twice
FreshPages(seen, n) ==
    {r \in SeqsUpTo(SiteSamples, n) :
        /\ \A i \in 1..Len(r) : \A j \in 1..Len(seen) : r[i] # seen[j]
        /\ \A i, j \in 1..Len(r) : r[i] = r[j] => i = j}

\* responses of the list endpoint: status 200 with a body, or a failure; the
\* endpoint does not return a site twice
ListResponses(seen, limit) ==
    {[status |-> 200, json |-> [data |-> [results |-> r]]] : r \in FreshPages(seen, limit)}
    \cup {[status |-> 200, json |-> EmptyDict], [status |-> 500, json |-> EmptyDict]}

DetailFull ==
    [infos |-> <<InfoAvailable7>>, current_forecast |-> [occupancy |-> 55],
     url |-> <<"u">>]

\* the body the detail endpoint has for a site
DetailJson(s) ==
    CASE s = SiteBnf   -> [data |-> DetailFull]
      [] s = SiteCujas -> [data |-> [url |-> <<"c">>, current_forecast |-> EmptyDict]]
      [] s = SiteZero  -> EmptyDict
      [] OTHER         -> [data |-> [infos |-> <<InfoWifi, InfoPLACES1234>>]]

\* responses of the detail endpoint for a site: its body, or a failure
DetailResponses(s) ==
    {[status |-> 200, json |-> DetailJson(s)], [status |-> 404, json |-> EmptyDict]}

----------------------------------------------------------------------------
(* fetch_all_library_sites: one iteration of the while loop *)

\* a status test that lets a server error through
StatusOk_not404(status) == status # 404

\* resp.status_code != 200 is the failure test
StatusOk(status) == status = 200

\* payload_json.get("data", {}).get("results", [])
ResultsOf(payload_json) == GetD(GetD(payload_json, "data", EmptyDict), "results", <<>>)

\* an accumulation that puts the newest page first
Extend_prepend(sites, results) == results \o sites

\* all_sites.extend(results)
Extend(sites, results) == sites \o results

ListPage(resp) ==
    /\ pc = "list"
    /\ LET requested == Append(log, [op |-> "list", page |-> page, status |-> resp.status])
           results   == ResultsOf(resp.json)
       IN  IF ~StatusOk(resp.status)
           THEN \* raise RuntimeError: main() is left
                /\ pc' = "aborted"
                /\ log' = requested
                /\ UNCHANGED <<page, acc_sites, list_responses, all_sites>>
           ELSE IF results = <<>>
           THEN \* break; return all_sites
                /\ pc' = "filter"
                /\ log' = requested
                /\ all_sites' = acc_sites
                /\ list_responses' = Append(list_responses, results)
                /\ UNCHANGED <<page, acc_sites>>
           ELSE /\ acc_sites' = Extend(acc_sites, results)
                /\ page' = page + 1
                /\ log' = Append(requested, [op |-> "sleep"])
                /\ list_responses' = Append(list_responses, results)
                /\ UNCHANGED <<pc, all_sites>>
    /\ UNCHANGED <<libraries, idx, enriched, csv_file, map_file>>
    /\ UNCHANGED seats_vars

\* the list endpoint: it has at most MaxPages non-empty pages and MaxSites sites
ListEndpoint ==
    \E resp \in ListResponses(acc_sites,
                               IF page < MaxPages THEN MaxSites - Len(acc_sites) ELSE 0) :
        ListPage(resp)

----------------------------------------------------------------------------
(* main: the region filter *)

\* addr.get("region", "") or ""
RegionOf(s) ==
    OrSeq(GetD(GetD(GetD(s, "location", EmptyDict), "address", EmptyDict), "region", <<>>), <<>>)

PassesFilter(s) == is_ile_de_france(RegionOf(s))

\* a filter that keeps every site
FilterLibraries_all(sites) == sites

FilterLibraries(sites) == SelectSeq(sites, PassesFilter)

Filter ==
    /\ pc = "filter"
    /\ libraries' = FilterLibraries(all_sites)
    /\ pc' = "enrich"
    /\ UNCHANGED <<page, acc_sites, list_responses, all_sites, idx, enriched,
                   csv_file, map_file, log>>
    /\ UNCHANGED seats_vars

----------------------------------------------------------------------------
(* main: one iteration of the loop over libraries *)

\* a key that prefers the id
DetailKey_id(s) == OrText(Get(s, "id"), Get(s, "slug"))

\* s.get("slug") or s.get("id")
DetailKey(s) == OrText(Get(s, "slug"), Get(s, "id"))

\* a fallback to an empty detail instead of the summary
DetailOrSummary_empty(resp, s) ==
    IF StatusOk(resp.status) THEN GetD(resp.json, "data", EmptyDict) ELSE EmptyDict

\* fetch_site_detail inside try/except: the data of the response, or s itself
DetailOrSummary(resp, s) ==
    IF StatusOk(resp.status) THEN GetD(resp.json, "data", EmptyDict) ELSE s

\* detail.get("infos", []) or s.get("infos", [])
InfosOf(detail, s) == OrSeq(GetD(detail, "infos", <<>>), GetD(s, "infos", <<>>))

\* lat and lon of s.get("location", {}).get("coordinates", {})
CoordsOf(s) ==
    LET coords == GetD(GetD(s, "location", EmptyDict), "coordinates", EmptyDict)
    IN  IF DOMAIN coords # {}
        THEN [lat |-> Get(coords, "latitude"), lon |-> Get(coords, "longitude")]
        ELSE [lat |-> None, lon |-> None]

EnrichedRecord(s, detail) ==
    [id                   |-> Get(s, "id"),
     slug                 |-> Get(s, "slug"),
     name                 |-> OrText(Get(s, "primary_name"), Get(s, "concat_name")),
     address              |-> GetD(GetD(s, "location", EmptyDict), "address", EmptyDict),
     latitude             |-> CoordsOf(s).lat,
     longitude            |-> CoordsOf(s).lon,
     available_seats      |-> get_available_seats_from_infos(InfosOf(detail, s)),
     occupancy_percent    |-> Get(GetD(detail, "current_forecast", EmptyDict), "occupancy"),
     estimated_distance_m |-> Get(s, "estimated_distance"),
     detail_url           |-> Get(detail, "url")]

Enrich(resp) ==
    /\ pc = "enrich"
    /\ idx < Len(libraries)
    /\ LET s      == libraries[idx + 1]
           detail == DetailOrSummary(resp, s)
       IN  /\ enriched' = Append(enriched, EnrichedRecord(s, detail))
           /\ log' = log \o <<[op |-> "detail", key |-> DetailKey(s), status |-> resp.status],
                             [op |-> "sleep"]>>
    /\ idx' = idx + 1
    /\ UNCHANGED <<pc, page, acc_sites, list_responses, all_sites, libraries,
                   csv_file, map_file>>
    /\ UNCHANGED seats_vars

DetailEndpoint ==
    /\ pc = "enrich"
    /\ idx < Len(libraries)
    /\ \E resp \in DetailResponses(libraries[idx + 1]) : Enrich(resp)

----------------------------------------------------------------------------
(* main: the CSV *)

CsvRow(r) ==
    [id                   |-> r.id,
     slug                 |-> r.slug,
     name                 |-> r.name,
     latitude             |-> r.latitude,
     longitude            |-> r.longitude,
     available_seats      |-> r.available_seats,
     occupancy_percent    |-> r.occupancy_percent,
     estimated_distance_m |-> r.estimated_distance_m,
     detail_url           |-> r.detail_url]

WriteCsv ==
    /\ pc = "enrich"
    /\ idx = Len(libraries)
    /\ csv_file' = Some([i \in 1..Len(enriched) |-> CsvRow(enriched[i])])
    /\ pc' = "map"
    /\ UNCHANGED <<page, acc_sites, list_responses, all_sites, libraries, idx,
                   enriched, map_file, log>>
    /\ UNCHANGED seats_vars

----------------------------------------------------------------------------
(* main: the map *)

DefaultLat == 488566

DefaultLon == 23522

\* sum of f[1..n]
RECURSIVE SumTo(_, _)
SumTo(f, n) == IF n = 0 THEN 0 ELSE f[n] + SumTo(f, n - 1)

\* statistics.mean, as the fraction sum / count
Mean(xs) == [num |-> SumTo(xs, Len(xs)), den |-> Len(xs)]

\* if r["latitude"] and r["longitude"]
InCoordsList(r) == TruthyNum(r.latitude) /\ TruthyNum(r.longitude)

\* not (lat is None or lon is None)
HasMarker(r) == ~(r.latitude = None \/ r.longitude = None)

MapCenter(records) ==
    LET coords_list == SelectSeq(records, InCoordsList)
    IN  IF coords_list # <<>>
        THEN [lat |-> Mean([i \in 1..Len(coords_list) |-> coords_list[i].latitude[1]]),
              lon |-> Mean([i \in 1..Len(coords_list) |-> coords_list[i].longitude[1]])]
        ELSE [lat |-> [num |-> DefaultLat, den |-> 10000],
              lon |-> [num |-> DefaultLon, den |-> 10000]]

SitePagePrefix == <<"/","s","i","t","e","/">>

\* str() of an optional text inside an f-string
Str(o) == IF o = None THEN <<"N","o","n","e">> ELSE o[1]

Marker(r) ==
    [location |-> <<r.latitude[1], r.longitude[1]>>,
     tooltip  |-> r.name,
     addr     |-> GetD(r.address, "route", <<>>) \o <<" ">> \o GetD(r.address, "city", <<>>),
     seats    |-> r.available_seats,
     occ      |-> r.occupancy_percent,
     link     |-> IF TruthyText(r.detail_url) THEN r.detail_url[1]
                  ELSE SitePagePrefix \o Str(r.slug)]

MapMarkers(records) ==
    LET marked == SelectSeq(records, HasMarker)
    IN  [i \in 1..Len(marked) |-> Marker(marked[i])]

BuildMap ==
    /\ pc = "map"
    /\ map_file' = Some([location |-> MapCenter(enriched), markers |-> MapMarkers(enriched)])
    /\ pc' = "done"
    /\ UNCHANGED <<page, acc_sites, list_responses, all_sites, libraries, idx,
                   enriched, csv_file, log>>
    /\ UNCHANGED seats_vars

----------------------------------------------------------------------------
(* The run of main() *)

Init ==
    /\ pc = "list"
    /\ page = 0
    /\ acc_sites = <<>>
    /\ list_responses = <<>>
    /\ all_sites = <<>>
    /\ libraries = <<>>
    /\ idx = 0
    /\ enriched = <<>>
    /\ csv_file = None
    /\ map_file = None
    /\ log = <<>>
    /\ seats_called = FALSE
    /\ seats_infos = <<>>
    /\ seats_result = None

Next ==
    \/ ListEndpoint
    \/ Filter
    \/ DetailEndpoint
    \/ WriteCsv
    \/ BuildMap

Spec == Init /\ [][Next]_vars

----------------------------------------------------------------------------
(* get_available_seats_from_infos called on its own *)

CallSeats(infos) ==
    /\ ~seats_called
    /\ seats_called' = TRUE
    /\ seats_infos' = infos
    /\ seats_result' = get_available_seats_from_infos(infos)
    /\ UNCHANGED pipeline_vars

SeatsNext == \E infos \in SeqsUpTo(InfoSamples, MaxInfos) : CallSeats(infos)

SeatsSpec == Init /\ [][SeatsNext]_vars

----------------------------------------------------------------------------
(* Helpers of the properties *)

Min(S) == CHOOSE x \in S : \A y \in S : x <= y

RECURSIVE Flatten(_)
Flatten(ss) == IF ss = <<>> THEN <<>> ELSE Head(ss) \o Flatten(Tail(ss))

IsList(ev) == ev.op = "list"

IsDetail(ev) == ev.op = "detail"

ListEvents == SelectSeq(log, IsList)

DetailEvents == SelectSeq(log, IsDetail)

\* the sites of all_sites whose region passes the matcher, in listing order
RECURSIVE Survivors(_)
Survivors(sites) ==
    IF sites = <<>> THEN <<>>
    ELSE (IF is_ile_de_france(RegionOf(Head(sites))) THEN <<Head(sites)>> ELSE <<>>)
         \o Survivors(Tail(sites))

\* the entries that match a keyword
KwMatching(infos) ==
    {i \in 1..Len(infos) :
        LET combined == Combined(infos[i])
        IN  \E j \in 1..Len(keywords) : Contains(keywords[j], combined)}

\* the entries whose description-or-title yields an integer
Yielding(infos) ==
    {i \in 1..Len(infos) : extract_first_int(NumberSource(infos[i])) # None}

IntOf(infos, i) == extract_first_int(NumberSource(infos[i]))

FirstBlind(infos) ==
    IF Yielding(infos) = {} THEN None ELSE IntOf(infos, Min(Yielding(infos)))

----------------------------------------------------------------------------
(* C1: when the list endpoint answers pages 0..N-1 with non-empty results   *)
(* and page N with empty results, fetch_all_library_sites issues exactly    *)
(* the N+1 list requests for pages 0, 1, ..., N in that order, stops, and   *)
(* returns the concatenation of the N non-empty pages in page order.        *)
C1_FetchAll ==
    /\ \A i \in 1..Len(ListEvents) : ListEvents[i].page = i - 1
    /\ pc \notin {"list", "aborted"} =>
          LET n == Len(list_responses) - 1
          IN  /\ n >= 0
              /\ list_responses[n + 1] = <<>>
              /\ \A i \in 1..n : list_responses[i] # <<>>
              /\ Len(ListEvents) = n + 1
              /\ all_sites = Flatten(SubSeq(list_responses, 1, n))

C1_Witness ==
    /\ pc = "done"
    /\ Len(list_responses) = 3
    /\ Len(ListEvents) = 3
    /\ all_sites = <<SiteBnf, SiteRennes, SiteCujas>>
    /\ list_responses[1] = <<SiteBnf, SiteRennes>>

(* C2: a list request answered with a non-success status aborts the run at  *)
(* that page: it is the last remote request, no detail request is issued,   *)
(* no record is produced, neither file is written and the pages read so far *)
(* are not returned.                                                        *)
C2_ListFailureAborts ==
    \A i \in 1..Len(log) :
        (log[i].op = "list" /\ log[i].status # 200) =>
            /\ pc = "aborted"
            /\ i = Len(log)
            /\ DetailEvents = <<>>
            /\ all_sites = <<>>
            /\ libraries = <<>>
            /\ enriched = <<>>
            /\ csv_file = None
            /\ map_file = None

C2_Witness ==
    /\ pc = "aborted"
    /\ acc_sites = <<SiteBnf, SiteCujas>>
    /\ Len(ListEvents) = 2
    /\ log[Len(log)].status = 500

(* C3: when the detail request of a surviving site fails the run goes on:   *)
(* the site still gets exactly one record, whose available_seats is the     *)
(* heuristic applied to the summary's own infos and whose occupancy is the  *)
(* summary's own forecast occupancy (absent if it has none), and the        *)
(* remaining sites are processed.                                           *)
C3_DetailFailureDegrades ==
    /\ Len(enriched) = Len(DetailEvents)
    /\ pc \in {"map", "done"} => Len(enriched) = Len(libraries)
    /\ \A i \in 1..Len(DetailEvents) :
          DetailEvents[i].status # 200 =>
              LET s == libraries[i]
              IN  /\ pc \in {"enrich", "map", "done"}
                  /\ enriched[i].id = Get(s, "id")
                  /\ enriched[i].available_seats =
                         get_available_seats_from_infos(GetD(s, "infos", <<>>))
                  /\ enriched[i].occupancy_percent =
                         IF "current_forecast" \in DOMAIN s
                            /\ "occupancy" \in DOMAIN s["current_forecast"]
                         THEN <<s["current_forecast"]["occupancy"]>>
                         ELSE None

C3_Witness ==
    /\ pc = "done"
    /\ libraries = <<SiteBnf, SiteCujas, SiteZero>>
    /\ DetailEvents[1].status = 404
    /\ DetailEvents[2].status = 404
    /\ DetailEvents[3].status = 200
    /\ enriched[1].available_seats = <<12>>
    /\ enriched[1].occupancy_percent = <<40>>
    /\ enriched[2].available_seats = <<50>>
    /\ enriched[2].occupancy_percent = None
    /\ csv_file # None
    /\ map_file # None

(* C4: the heuristic scans the entries in order and returns the integer of  *)
(* the first entry that matches a keyword and whose description (or title,  *)
(* when the description is empty or absent) yields an integer; a later      *)
(* matching entry never changes the result.                                 *)
C4_FirstKeywordMatchWins ==
    seats_called =>
        LET hits == KwMatching(seats_infos) \cap Yielding(seats_infos)
        IN  hits # {} => seats_result = IntOf(seats_infos, Min(hits))

C4_Witness ==
    /\ seats_called
    /\ seats_infos = <<InfoHoraires, InfoPlaces12, InfoAvailable7>>
    /\ seats_result = <<12>>

(* C5, as the spec states it: when some entry matches a keyword the result  *)
(* is never an integer of an entry that matches no keyword; when no entry   *)
(* matches a keyword the result is the first integer of any entry, or       *)
(* absent.                                                                  *)
C5_FallbackOnlyWithoutKeyword ==
    seats_called =>
        IF KwMatching(seats_infos) # {}
        THEN \/ seats_result = None
             \/ \E i \in KwMatching(seats_infos) \cap Yielding(seats_infos) :
                    seats_result = IntOf(seats_infos, i)
        ELSE seats_result = FirstBlind(seats_infos)

(* C5, amended: the blind pass is taken when no keyword-matching entry      *)
(* yields an integer. When some keyword-matching entry yields an integer,   *)
(* the result is the integer of such an entry; otherwise it is the first    *)
(* integer of any entry, in order, or absent.                               *)
C5_FallbackWithoutKeywordInteger ==
    seats_called =>
        LET hits == KwMatching(seats_infos) \cap Yielding(seats_infos)
        IN  IF hits # {}
            THEN \E i \in hits : seats_result = IntOf(seats_infos, i)
            ELSE seats_result = FirstBlind(seats_infos)

C5_Witness ==
    /\ seats_called
    /\ seats_infos = <<InfoPlacesComplet, InfoWifi, InfoHoraires>>
    /\ seats_result = <<9>>

(* C6: in every emitted record latitude and longitude are both present or   *)
(* both absent.                                                             *)
C6_BothOrNeither ==
    \A i \in 1..Len(enriched) :
        (enriched[i].latitude = None) <=> (enriched[i].longitude = None)

(* C7: the output has exactly one record per position of the listing whose  *)
(* region passes the matcher, in listing order, and the CSV has one row per *)
(* record in that order.                                                    *)
C7_OneRecordPerSurvivor ==
    LET expected == Survivors(all_sites)
    IN  /\ Len(enriched) <= Len(expected)
        /\ \A i \in 1..Len(enriched) :
              /\ enriched[i].id = Get(expected[i], "id")
              /\ enriched[i].slug = Get(expected[i], "slug")
        /\ pc \in {"map", "done"} => Len(enriched) = Len(expected)
        /\ pc = "done" => csv_file # None
        /\ csv_file # None =>
              /\ Len(csv_file[1]) = Len(enriched)
              /\ \A i \in 1..Len(enriched) :
                    /\ csv_file[1][i].id = enriched[i].id
                    /\ csv_file[1][i].slug = enriched[i].slug
                    /\ csv_file[1][i].name = enriched[i].name
                    /\ csv_file[1][i].available_seats = enriched[i].available_seats

C7_Witness ==
    /\ pc = "done"
    /\ all_sites = <<SiteRennes, SiteZero, SiteBnf>>
    /\ Len(enriched) = 2
    /\ enriched[1].id = <<SiteZero.id>>
    /\ enriched[2].id = <<SiteBnf.id>>
    /\ Len(csv_file[1]) = 2

(* C8: every remote request that was answered successfully, and every       *)
(* per-site step, is followed by a pacing delay before the next remote      *)
(* request: no two remote requests are issued without a sleep in between.   *)
C8_PacedRequests ==
    \A i \in 1..(Len(log) - 1) :
        log[i].op # "sleep" => log[i + 1].op = "sleep"

(* C9: the map has one marker for exactly the records whose latitude and    *)
(* longitude are both present, its center is the mean over those same       *)
(* records, and the default centroid is used iff there is no such record.   *)
C9_MapOverPresentCoordinates ==
    map_file # None =>
        LET present == {i \in 1..Len(enriched) :
                           enriched[i].latitude # None /\ enriched[i].longitude # None}
            m       == map_file[1]
        IN  /\ Len(m.markers) = Cardinality(present)
            /\ IF present = {}
               THEN m.location = [lat |-> [num |-> DefaultLat, den |-> 10000],
                                  lon |-> [num |-> DefaultLon, den |-> 10000]]
               ELSE /\ m.location.lat.den = Cardinality(present)
                    /\ m.location.lon.den = Cardinality(present)
                    /\ m.location.lat.num =
                          SumTo([i \in 1..Len(enriched) |->
                                   IF i \in present THEN enriched[i].latitude[1] ELSE 0],
                                Len(enriched))
                    /\ m.location.lon.num =
                          SumTo([i \in 1..Len(enriched) |->
                                   IF i \in present THEN enriched[i].longitude[1] ELSE 0],
                                Len(enriched))

(* C10: all list requests come before the first detail request; then one    *)
(* detail request is issued per site that passed the filter, in filter      *)
(* order, keyed by the slug, or by the id when there is no slug; none for a *)
(* site that failed the filter; a failed detail request is not retried.     *)
C10_DetailRequests ==
    LET expected == Survivors(all_sites)
    IN  /\ \A i, j \in 1..Len(log) :
              (log[i].op = "detail" /\ log[j].op = "list") => j < i
        /\ DetailEvents # <<>> => pc \notin {"list", "filter", "aborted"}
        /\ Len(DetailEvents) = idx
        /\ idx <= Len(expected)
        /\ pc \in {"map", "done"} => idx = Len(expected)
        /\ \A i \in 1..Len(DetailEvents) :
              DetailEvents[i].key =
                  IF "slug" \in DOMAIN expected[i] /\ expected[i]["slug"] # <<>>
                  THEN <<expected[i]["slug"]>>
                  ELSE <<expected[i]["id"]>>

C10_Witness ==
    /\ pc = "done"
    /\ all_sites = <<SiteCujas, SiteRennes, SiteBnf>>
    /\ Len(DetailEvents) = 2
    /\ DetailEvents[1].status = 404
    /\ DetailEvents[1].key = <<SiteCujas.id>>
    /\ DetailEvents[2].key = <<SiteBnf.slug>>

====
